---- MODULE Spec2Model ----
(***************************************************************************)
(* A model of the AI tax & research agent: the interactive loop of         *)
(* main.run, the router/handler graph of agent/graph.py and                *)
(* agent/nodes.py, the conversion pipeline and the field extraction of     *)
(* agent/tools/pdf_converter.py and the sqlite tables of agent/db.py.      *)
(*                                                                         *)
(* Text is a sequence of one-character strings, so that strip(), lower()   *)
(* and the regular expressions of parse_pdf_path and of the field rules    *)
(* are computed, not assumed.                                              *)
(***************************************************************************)
EXTENDS Integers, Sequences, FiniteSets, TLC

(***************************************************************************)
(* Bounds of the model.                                                    *)
(***************************************************************************)
\* turns (graph invocations) started, over all processes
MaxTurns == 3
\* processes started (main.run is run again after exit or a crash)
MaxRuns == 2
\* upsert_session calls in the session-store specification
MaxCalls == 3
\* largest clock reading in the session-store specification
MaxTime == 2
\* convert_pdf_to_csv calls in the extraction specification
MaxExtracts == 2

(***************************************************************************)
(* Python str primitives.                                                  *)
(***************************************************************************)
\* The value None.  It is a one-element tuple holding a word that is no
\* character, so it differs from every text.
None == <<"None">>

Whitespace == {" ", "\t", "\n"}

ToLower(c) ==
    CASE c = "A" -> "a" [] c = "B" -> "b" [] c = "C" -> "c" [] c = "D" -> "d"
      [] c = "E" -> "e" [] c = "F" -> "f" [] c = "G" -> "g" [] c = "H" -> "h"
      [] c = "I" -> "i" [] c = "J" -> "j" [] c = "K" -> "k" [] c = "L" -> "l"
      [] c = "M" -> "m" [] c = "N" -> "n" [] c = "O" -> "o" [] c = "P" -> "p"
      [] c = "Q" -> "q" [] c = "R" -> "r" [] c = "S" -> "s" [] c = "T" -> "t"
      [] c = "U" -> "u" [] c = "V" -> "v" [] c = "W" -> "w" [] c = "X" -> "x"
      [] c = "Y" -> "y" [] c = "Z" -> "z" [] OTHER -> c

\* str.lower()
Lower(s) == [i \in 1..Len(s) |-> ToLower(s[i])]

\* str.strip(chars): drop the leading and the trailing characters in cs
StripChars(s, cs) ==
    LET keep == {i \in 1..Len(s) : s[i] \notin cs}
    IN  IF keep = {} THEN <<>>
        ELSE LET lo == CHOOSE i \in keep : \A j \in keep : i <= j
                 hi == CHOOSE i \in keep : \A j \in keep : j <= i
             IN  SubSeq(s, lo, hi)

\* str.strip()
Strip(s) == StripChars(s, Whitespace)

\* "sep".join(parts)
RECURSIVE Join(_, _)
Join(parts, sep) ==
    IF parts = <<>> THEN <<>>
    ELSE IF Len(parts) = 1 THEN parts[1]
    ELSE parts[1] \o sep \o Join(Tail(parts), sep)

(***************************************************************************)
(* Literals of the program.                                                *)
(***************************************************************************)
ChatLabel == <<"c", "h", "a", "t">>
SearchLabel == <<"s", "e", "a", "r", "c", "h">>
PdfLabel == <<"p", "d", "f">>
Labels == {ChatLabel, SearchLabel, PdfLabel}

ConvertWord == <<"c", "o", "n", "v", "e", "r", "t">>
ExitWord == <<"e", "x", "i", "t">>
QuitWord == <<"q", "u", "i", "t">>
HistoryWord == <<"h", "i", "s", "t", "o", "r", "y">>

(***************************************************************************)
(* main.parse_pdf_path: re.match(r"convert\s+(.+)", *)
(* re.IGNORECASE).  \s+ is greedy and gives characters back until (.+)     *)
(* finds a character that is no newline; (.+) then runs to the next        *)
(* newline or the end of the input.                                        *)
(***************************************************************************)
\* the lengths j of the whitespace run \s+ for which the whole pattern matches
ConvertSplits(s) ==
    IF Len(s) < Len(ConvertWord) + 2 THEN {}
    ELSE IF Lower(SubSeq(s, 1, Len(ConvertWord))) # ConvertWord THEN {}
    ELSE {j \in 1..(Len(s) - Len(ConvertWord) - 1) :
            /\ \A i \in 1..j : s[Len(ConvertWord) + i] \in Whitespace
            /\ s[Len(ConvertWord) + j + 1] # "\n"}

\* match.group(1): the text (.+) captures, None without a match
ConvertGroup(s) ==
    IF ConvertSplits(s) = {} THEN None
    ELSE LET j     == CHOOSE k \in ConvertSplits(s) : \A m \in ConvertSplits(s) : m <= k
             from  == Len(ConvertWord) + j + 1
             stops == {i \in from..Len(s) : s[i] = "\n"}
             to    == IF stops = {} THEN Len(s)
                      ELSE (CHOOSE i \in stops : \A m \in stops : i <= m) - 1
         IN  SubSeq(s, from, to)

\* parse_pdf_path(user_input) = (cleaned_input, pdf_path)
parse_pdf_path(s) ==
    IF ConvertGroup(s) = None
    THEN [cleaned |-> s, path |-> None]
    ELSE LET path == StripChars(StripChars(Strip(ConvertGroup(s)), {"\""}), {"'"})
         IN  [cleaned |-> ConvertWord \o <<" ">> \o path, path |-> path]

(***************************************************************************)
(* The world outside the program: the lines typed at the prompt, the files *)
(* on disk, and what the classifier may answer.                            *)
(***************************************************************************)
\* a PDF with one page of text
TextPdf == <<"a", ".", "p">>
\* a scanned PDF: one page without text, one page of blank text
ScannedPdf == <<"s", ".", "p">>
\* a PDF whose only page has no text at all
EmptyPdf == <<"e", ".", "p">>
\* a name no file has
MissingPdf == <<"b">>

\* page.extract_text() of every page of the files on disk (None: no text)
Disk ==
    (TextPdf :> << <<"w", " ", "5">> >>) @@ (ScannedPdf :> << None, <<" ">> >>)
    @@ (EmptyPdf :> << None >>)

\* os.path.isfile
IsFile(p) == p \in DOMAIN Disk

\* the lines input() can return
Lines ==
    { <<" ">>,
      <<"h", "i">>,
      <<"E", "x", "i", "t">>,
      <<"q", "u", "i", "t", " ">>,
      <<"H", "i", "s", "t", "o", "r", "y">>,
      ConvertWord \o <<" ">> \o TextPdf,
      <<" ", "C", "O", "N", "V", "E", "R", "T", " ", "\t", "'">> \o ScannedPdf \o <<"'">>,
      ConvertWord \o <<" ">> \o EmptyPdf,
      ConvertWord \o <<" ">> \o MissingPdf,
      ConvertWord \o <<" ", "\"", "\"">> }

\* the texts response.content of the classification call can hold
Responses ==
    { ChatLabel, SearchLabel, PdfLabel,
      <<" ", "P", "D", "F", "\n">>,
      <<"S", "e", "a", "r", "c", "h">>,
      <<"d", "o", "c", "u", "m", "e", "n", "t">>,
      <<"p", "d", "f", ".">>,
      <<>> }

(***************************************************************************)
(* Messages.  The text of a reply is kept as one word per fixed phrase.    *)
(***************************************************************************)
HumanMessage(c) == [type |-> "human", content |-> c]
AIMessage(c) == [type |-> "ai", content |-> c]

\* response.content of a generation call
LlmReply == <<"(llm reply)">>
ClarifyReply == <<"I'd love to convert a PDF for you! Please provide the path">>
NotFoundReply(p) == <<"File not found: ">> \o p
ErrorReply(e) == <<"Error processing PDF: ", e>>

NoTextError == "No text could be extracted from the PDF"
CapabilityError == "the capability call failed"

(***************************************************************************)
(* agent/tools/pdf_converter.py: the conversion pipeline.                  *)
(***************************************************************************)
\* the page texts that are truthy (neither None nor ""), in page order
RECURSIVE TextParts(_)
TextParts(pages) ==
    IF pages = <<>> THEN <<>>
    ELSE (IF pages[1] = None \/ pages[1] = <<>> THEN <<>> ELSE <<pages[1]>>)
         \o TextParts(Tail(pages))

\* extract_text_from_pdf(pdf_path), for a file pdfplumber can open
extract_text_from_pdf(p) == Join(TextParts(Disk[p]), <<"\n">>)

\* Path(pdf_path).stem: the last component without its last suffix
Stem(p) ==
    LET slashes == {i \in 1..Len(p) : p[i] = "/"}
        start   == IF slashes = {} THEN 1
                   ELSE (CHOOSE i \in slashes : \A j \in slashes : j <= i) + 1
        name    == SubSeq(p, start, Len(p))
        dots    == {i \in 2..(Len(name) - 1) : name[i] = "."}
    IN  IF dots = {} THEN name
        ELSE SubSeq(name, 1, (CHOOSE i \in dots : \A j \in dots : j <= i) - 1)

\* str(Path(output_dir) / f"{stem}_tax_return.csv") with output_dir = "output"
CsvPathOf(p) == <<"output/">> \o Stem(p) \o <<"_tax_return.csv">>

\* convert_pdf_to_csv without the "if not pdf_text.strip()" check
convert_pdf_to_csv_NoBlankCheck(p) ==
    [raised |-> "", wrote |-> TRUE, csv_path |-> CsvPathOf(p)]

\* convert_pdf_to_csv(pdf_path) up to template_to_csv: what it raises, whether
\* it wrote the CSV file, and the csv_path it returns
convert_pdf_to_csv(p) ==
    IF Strip(extract_text_from_pdf(p)) = <<>>
    THEN [raised |-> NoTextError, wrote |-> FALSE, csv_path |-> None]
    ELSE [raised |-> "", wrote |-> TRUE, csv_path |-> CsvPathOf(p)]

(***************************************************************************)
(* agent/db.py: the sessions and conversions tables.  A table is a set     *)
(* (sessions) or a sequence in insertion order (conversions) of rows.      *)
(***************************************************************************)
\* upsert_session whose update sets message_count = excluded.message_count
upsert_session_Overwrites(rows, id, delta, t) ==
    IF \E r \in rows : r.thread_id = id
    THEN {IF r.thread_id = id
          THEN [r EXCEPT !.last_active = t, !.message_count = delta]
          ELSE r : r \in rows}
    ELSE rows \cup {[thread_id |-> id, created_at |-> t, last_active |-> t,
                     message_count |-> delta]}

\* INSERT ... ON CONFLICT(thread_id) DO UPDATE, reading the clock as t
upsert_session(rows, id, delta, t) ==
    IF \E r \in rows : r.thread_id = id
    THEN {IF r.thread_id = id
          THEN [r EXCEPT !.last_active = t,
                         !.message_count = r.message_count + delta]
          ELSE r : r \in rows}
    ELSE rows \cup {[thread_id |-> id, created_at |-> t, last_active |-> t,
                     message_count |-> delta]}

\* INSERT INTO conversions; the AUTOINCREMENT id is the row's position
log_conversion(rows, id, pdf_file, csv_file, t) ==
    Append(rows, [thread_id |-> id, pdf_file |-> pdf_file, csv_file |-> csv_file,
                  processed_at |-> t])

\* LIMIT of list_sessions
SessionListLimit == 10

\* list_sessions(): the most recently active sessions
list_sessions(rows) ==
    {r \in rows :
        Cardinality({q \in rows : q.last_active > r.last_active}) < SessionListLimit}

(***************************************************************************)
(* Python's re, as far as the patterns of agent/tools/pdf_converter.py     *)
(* use it.  A pattern is a sequence of nodes:                              *)
(*   "chars"  between lo and hi (inf: any number from lo) characters that  *)
(*            are in cs (neg: that are not in cs); greedy takes as many as *)
(*            it can first, lazy as few as it can first;                   *)
(*   "alt"    one of the words ws, tried from the left;                    *)
(*   "b"      \b;   "open", "close"   the parentheses of group 1.          *)
(* Every pattern is compiled with re.IGNORECASE: the sets hold lower-case  *)
(* letters and a character is compared after ToLower.  The matcher         *)
(* backtracks in re's order, so the match it returns is the match re       *)
(* returns.  Texts are ASCII.                                              *)
(***************************************************************************)
Digits == {"0", "1", "2", "3", "4", "5", "6", "7", "8", "9"}

LowerLetters ==
    {"a", "b", "c", "d", "e", "f", "g", "h", "i", "j", "k", "l", "m",
     "n", "o", "p", "q", "r", "s", "t", "u", "v", "w", "x", "y", "z"}

\* \w
WordChars == LowerLetters \cup Digits \cup {"_"}

Chars(cs, neg, lo, hi, inf, lazy) ==
    [k |-> "chars", cs |-> cs, neg |-> neg, lo |-> lo, hi |-> hi,
     inf |-> inf, lazy |-> lazy]

\* [cs]
One(cs) == Chars(cs, FALSE, 1, 1, FALSE, FALSE)
\* [cs]?
Opt(cs) == Chars(cs, FALSE, 0, 1, FALSE, FALSE)
\* [cs]+
Plus(cs) == Chars(cs, FALSE, 1, 1, TRUE, FALSE)
\* [cs]*
Star(cs) == Chars(cs, FALSE, 0, 0, TRUE, FALSE)
\* [cs]{n}
Repeat(cs, n) == Chars(cs, FALSE, n, n, FALSE, FALSE)
\* .  (re.DOTALL is not set: every character but the newline)
Dot == Chars({"\n"}, TRUE, 1, 1, FALSE, FALSE)
\* .*?
LazyDots == Chars({"\n"}, TRUE, 0, 0, TRUE, TRUE)
\* (?:w1|w2|...)
Alt(ws) == <<[k |-> "alt", ws |-> ws]>>
\* a literal word
Lit(w) == Alt(<<w>>)
\* \b
Boundary == <<[k |-> "b"]>>
GroupOpen == <<[k |-> "open"]>>
GroupClose == <<[k |-> "close"]>>

NoMatch == [ok |-> FALSE, from |-> 0, to |-> 0]

InClass(c, n) == (ToLower(c) \in n.cs) # n.neg

IsWordAt(text, j) == j \in 1..Len(text) /\ ToLower(text[j]) \in WordChars

\* how many characters from pos on a "chars" node can take at most
RunLength(text, pos, n) ==
    LET last == IF n.inf \/ pos + n.hi - 1 > Len(text) THEN Len(text)
                ELSE pos + n.hi - 1
        bad == {j \in pos..last : ~InClass(text[j], n)}
    IN  IF bad = {} THEN last - pos + 1
        ELSE (CHOOSE j \in bad : \A l \in bad : j <= l) - pos

\* MatchHere: the pattern from its node i on matches text at pos; cf and ct
\* are where group 1 began and ended so far.  The result is the span of
\* group 1 in the first match in backtracking order: a lazy node takes the
\* fewest characters with which the rest matches, a greedy node the most,
\* and "alt" the leftmost word with which the rest matches.
RECURSIVE MatchHere(_, _, _, _, _, _)
MatchHere(re, i, text, pos, cf, ct) ==
    IF i > Len(re) THEN [ok |-> TRUE, from |-> cf, to |-> ct]
    ELSE LET n == re[i]
         IN  CASE n.k = "open" -> MatchHere(re, i + 1, text, pos, pos, ct)
               [] n.k = "close" -> MatchHere(re, i + 1, text, pos, cf, pos - 1)
               [] n.k = "b" ->
                    IF IsWordAt(text, pos - 1) # IsWordAt(text, pos)
                    THEN MatchHere(re, i + 1, text, pos, cf, ct)
                    ELSE NoMatch
               [] n.k = "alt" ->
                    LET fit == {a \in 1..Len(n.ws) :
                                  /\ pos + Len(n.ws[a]) - 1 <= Len(text)
                                  /\ Lower(SubSeq(text, pos,
                                                  pos + Len(n.ws[a]) - 1)) = n.ws[a]
                                  /\ MatchHere(re, i + 1, text,
                                               pos + Len(n.ws[a]), cf, ct).ok}
                    IN  IF fit = {} THEN NoMatch
                        ELSE LET a == CHOOSE x \in fit : \A y \in fit : x <= y
                             IN  MatchHere(re, i + 1, text,
                                           pos + Len(n.ws[a]), cf, ct)
               [] n.k = "chars" ->
                    LET run == RunLength(text, pos, n)
                        fit == {c \in n.lo..run :
                                  MatchHere(re, i + 1, text, pos + c, cf, ct).ok}
                    IN  IF fit = {} THEN NoMatch
                        ELSE LET c == IF n.lazy
                                      THEN CHOOSE x \in fit : \A y \in fit : x <= y
                                      ELSE CHOOSE x \in fit : \A y \in fit : y <= x
                             IN  MatchHere(re, i + 1, text, pos + c, cf, ct)

\* re.search(pattern, text, re.IGNORECASE): the leftmost start that matches
re_search(re, text) ==
    LET starts == {s \in 1..Len(text) + 1 : MatchHere(re, 1, text, s, 0, 0).ok}
    IN  IF starts = {} THEN NoMatch
        ELSE MatchHere(re, 1, text,
                       CHOOSE s \in starts : \A r \in starts : s <= r, 0, 0)

\* match.group(1)
Group1(text, m) == SubSeq(text, m.from, m.to)

(***************************************************************************)
(* agent/tools/pdf_converter.py: the template and its extraction.          *)
(*                                                                         *)
(* A field's value is a str or a float.  A float is the decimal number     *)
(* m / 10^e with no trailing zero in its fraction, so two floats are equal *)
(* exactly when their records are; the numbers of the texts are short      *)
(* enough for a double to tell them apart.                                 *)
(***************************************************************************)
Str(s) == [t |-> "str", s |-> s, m |-> 0, e |-> 0]
Float(m, e) == [t |-> "float", s |-> <<>>, m |-> m, e |-> e]

DigitValue(c) ==
    CASE c = "0" -> 0 [] c = "1" -> 1 [] c = "2" -> 2 [] c = "3" -> 3
      [] c = "4" -> 4 [] c = "5" -> 5 [] c = "6" -> 6 [] c = "7" -> 7
      [] c = "8" -> 8 [] c = "9" -> 9

RECURSIVE IntOf(_)
IntOf(ds) ==
    IF ds = <<>> THEN 0
    ELSE 10 * IntOf(SubSeq(ds, 1, Len(ds) - 1)) + DigitValue(ds[Len(ds)])

RECURSIVE DropTrailingZeros(_)
DropTrailingZeros(ds) ==
    IF ds # <<>> /\ ds[Len(ds)] = "0"
    THEN DropTrailingZeros(SubSeq(ds, 1, Len(ds) - 1))
    ELSE ds

\* str.replace(c, "")
Remove(s, c) == SelectSeq(s, LAMBDA x : x # c)

\* float(raw) does not raise ValueError: raw is digits with at most one
\* point and at least one digit (group 1 of an amount pattern holds nothing
\* but digits, commas and a point)
FloatParses(raw) ==
    /\ \A i \in 1..Len(raw) : raw[i] \in Digits \cup {"."}
    /\ Cardinality({i \in 1..Len(raw) : raw[i] = "."}) <= 1
    /\ \E i \in 1..Len(raw) : raw[i] \in Digits

\* float(raw)
float(raw) ==
    LET dots == {i \in 1..Len(raw) : raw[i] = "."}
        dot == IF dots = {} THEN Len(raw) + 1 ELSE CHOOSE i \in dots : TRUE
        frac == DropTrailingZeros(SubSeq(raw, dot + 1, Len(raw)))
    IN  Float(IntOf(SubSeq(raw, 1, dot - 1) \o frac), Len(frac))

\* .*?\$?([\d,]+\.?\d*), the tail of every amount pattern
AmountTail ==
    <<LazyDots, Opt({"$"})>> \o GroupOpen
        \o <<Plus(Digits \cup {","}), Opt({"."}), Star(Digits)>> \o GroupClose

\* the dict literal TAX_TEMPLATE: a dict is the sequence of its items, in
\* insertion order
TAX_TEMPLATE ==
    <<
      [key |-> "Personal Information", value |-> <<
          [key |-> "Full Name", value |-> Str(<<>>)],
          [key |-> "SSN (last 4 digits)", value |-> Str(<<>>)],
          [key |-> "Filing Status", value |-> Str(<<>>)],
          [key |-> "Tax Year", value |-> Str(<<>>)]>>],
      [key |-> "Income", value |-> <<
          [key |-> "W-2 Wages", value |-> Float(0, 0)],
          [key |-> "Self-Employment / Freelance Income", value |-> Float(0, 0)],
          [key |-> "Interest Income (1099-INT)", value |-> Float(0, 0)],
          [key |-> "Dividend Income (1099-DIV)", value |-> Float(0, 0)],
          [key |-> "Capital Gains / Losses", value |-> Float(0, 0)],
          [key |-> "Other Income", value |-> Float(0, 0)]>>],
      [key |-> "Deductions", value |-> <<
          [key |-> "Deduction Type", value |-> Str(<<>>)],
          [key |-> "Mortgage Interest", value |-> Float(0, 0)],
          [key |-> "Charitable Contributions", value |-> Float(0, 0)],
          [key |-> "Medical Expenses", value |-> Float(0, 0)],
          [key |-> "State & Local Taxes (SALT)", value |-> Float(0, 0)],
          [key |-> "Other Deductions", value |-> Float(0, 0)]>>],
      [key |-> "Tax Credits", value |-> <<
          [key |-> "Child Tax Credit", value |-> Float(0, 0)],
          [key |-> "Education Credit", value |-> Float(0, 0)],
          [key |-> "EV / Energy Credit", value |-> Float(0, 0)],
          [key |-> "Other Credits", value |-> Float(0, 0)]>>],
      [key |-> "Summary", value |-> <<
          [key |-> "Gross Income", value |-> Float(0, 0)],
          [key |-> "Total Deductions", value |-> Float(0, 0)],
          [key |-> "Taxable Income", value |-> Float(0, 0)],
          [key |-> "Estimated Tax Owed", value |-> Float(0, 0)],
          [key |-> "Taxes Already Paid (W-2 withholding)", value |-> Float(0, 0)],
          [key |-> "Refund / Amount Due", value |-> Float(0, 0)]>>]
    >>

\* the assignments of parse_pdf_into_template, in their order: the field,
\* the function called and its patterns
FieldRules ==
    <<
      [section |-> "Personal Information", field |-> "Full Name",
       find |-> "_find_value", patterns |-> <<
            Lit(<<"n", "a", "m", "e">>) \o <<Plus(Whitespace \cup {":"})>> \o GroupOpen \o <<Plus(LowerLetters \cup {" ", ",", "'", "-"})>> \o GroupClose,
            Lit(<<"t", "a", "x", "p", "a", "y", "e", "r">>) \o <<Plus(Whitespace \cup {":"})>> \o GroupOpen \o <<Plus(LowerLetters \cup {" ", ",", "'", "-"})>> \o GroupClose>>],
      [section |-> "Personal Information", field |-> "SSN (last 4 digits)",
       find |-> "_find_value", patterns |-> <<
            Lit(<<"s", "s", "n">>) \o <<LazyDots>> \o GroupOpen \o <<Repeat(Digits, 4)>> \o GroupClose \o Boundary,
            Lit(<<"s", "o", "c", "i", "a", "l", " ", "s", "e", "c", "u", "r", "i", "t", "y">>) \o <<LazyDots>> \o GroupOpen \o <<Repeat(Digits, 4)>> \o GroupClose \o Boundary>>],
      [section |-> "Personal Information", field |-> "Filing Status",
       find |-> "_find_value", patterns |-> <<
            Lit(<<"f", "i", "l", "i", "n", "g", " ", "s", "t", "a", "t", "u", "s">>) \o <<Plus(Whitespace \cup {":"})>> \o GroupOpen \o <<One(WordChars), Plus(WordChars \cup {" ", "/"})>> \o GroupClose,
            GroupOpen \o Alt(<<<<"s", "i", "n", "g", "l", "e">>, <<"m", "a", "r", "r", "i", "e", "d", " ", "f", "i", "l", "i", "n", "g", " ", "j", "o", "i", "n", "t", "l", "y">>, <<"m", "a", "r", "r", "i", "e", "d", " ", "f", "i", "l", "i", "n", "g", " ", "s", "e", "p", "a", "r", "a", "t", "e", "l", "y">>, <<"h", "e", "a", "d", " ", "o", "f", " ", "h", "o", "u", "s", "e", "h", "o", "l", "d">>>>) \o GroupClose>>],
      [section |-> "Personal Information", field |-> "Tax Year",
       find |-> "_find_value", patterns |-> <<
            Lit(<<"t", "a", "x", " ", "y", "e", "a", "r">>) \o <<Plus(Whitespace \cup {":"})>> \o GroupOpen \o <<Repeat(Digits, 4)>> \o GroupClose,
            Boundary \o GroupOpen \o Lit(<<"2", "0">>) \o <<Repeat(Digits, 2)>> \o GroupClose \o Boundary>>],
      [section |-> "Income", field |-> "W-2 Wages",
       find |-> "_find_amount", patterns |-> <<
            Lit(<<"w", "a", "g", "e", "s">>) \o AmountTail,
            Lit(<<"w">>) \o <<Opt({"-"})>> \o Lit(<<"2">>) \o AmountTail>>],
      [section |-> "Income", field |-> "Self-Employment / Freelance Income",
       find |-> "_find_amount", patterns |-> <<
            Lit(<<"s", "e", "l", "f">>) \o <<Dot>> \o Lit(<<"e", "m", "p", "l", "o", "y">>) \o AmountTail,
            Lit(<<"f", "r", "e", "e", "l", "a", "n", "c", "e">>) \o AmountTail,
            Lit(<<"1", "0", "9", "9">>) \o AmountTail>>],
      [section |-> "Income", field |-> "Interest Income (1099-INT)",
       find |-> "_find_amount", patterns |-> <<
            Lit(<<"i", "n", "t", "e", "r", "e", "s", "t", " ", "i", "n", "c", "o", "m", "e">>) \o AmountTail,
            Lit(<<"1", "0", "9", "9", "-", "i", "n", "t">>) \o AmountTail>>],
      [section |-> "Income", field |-> "Dividend Income (1099-DIV)",
       find |-> "_find_amount", patterns |-> <<
            Lit(<<"d", "i", "v", "i", "d", "e", "n", "d">>) \o AmountTail,
            Lit(<<"1", "0", "9", "9", "-", "d", "i", "v">>) \o AmountTail>>],
      [section |-> "Income", field |-> "Capital Gains / Losses",
       find |-> "_find_amount", patterns |-> <<
            Lit(<<"c", "a", "p", "i", "t", "a", "l", " ", "g", "a", "i", "n">>) \o AmountTail>>],
      [section |-> "Deductions", field |-> "Deduction Type",
       find |-> "_find_value", patterns |-> <<
            GroupOpen \o Alt(<<<<"s", "t", "a", "n", "d", "a", "r", "d">>, <<"i", "t", "e", "m", "i", "z", "e", "d">>>>) \o GroupClose \o Lit(<<" ", "d", "e", "d", "u", "c", "t", "i", "o", "n">>)>>],
      [section |-> "Deductions", field |-> "Mortgage Interest",
       find |-> "_find_amount", patterns |-> <<
            Lit(<<"m", "o", "r", "t", "g", "a", "g", "e", " ", "i", "n", "t", "e", "r", "e", "s", "t">>) \o AmountTail>>],
      [section |-> "Deductions", field |-> "Charitable Contributions",
       find |-> "_find_amount", patterns |-> <<
            Lit(<<"c", "h", "a", "r", "i", "t">>) \o AmountTail>>],
      [section |-> "Deductions", field |-> "Medical Expenses",
       find |-> "_find_amount", patterns |-> <<
            Lit(<<"m", "e", "d", "i", "c", "a", "l">>) \o AmountTail>>],
      [section |-> "Deductions", field |-> "State & Local Taxes (SALT)",
       find |-> "_find_amount", patterns |-> <<
            Lit(<<"s", "a", "l", "t">>) \o AmountTail,
            Lit(<<"s", "t", "a", "t", "e">>) \o <<LazyDots>> \o Lit(<<"l", "o", "c", "a", "l">>) \o <<LazyDots>> \o Lit(<<"t", "a", "x">>) \o AmountTail>>],
      [section |-> "Tax Credits", field |-> "Child Tax Credit",
       find |-> "_find_amount", patterns |-> <<
            Lit(<<"c", "h", "i", "l", "d", " ", "t", "a", "x", " ", "c", "r", "e", "d", "i", "t">>) \o AmountTail>>],
      [section |-> "Tax Credits", field |-> "Education Credit",
       find |-> "_find_amount", patterns |-> <<
            Lit(<<"e", "d", "u", "c", "a", "t", "i", "o", "n", " ", "c", "r", "e", "d", "i", "t">>) \o AmountTail>>],
      [section |-> "Tax Credits", field |-> "EV / Energy Credit",
       find |-> "_find_amount", patterns |-> <<
            Lit(<<"e">>) \o Alt(<<<<"v">>, <<"l", "e", "c", "t", "r", "i", "c", " ", "v", "e", "h", "i", "c", "l", "e">>, <<"n", "e", "r", "g", "y">>>>) \o Lit(<<" ", "c", "r", "e", "d", "i", "t">>) \o AmountTail>>],
      [section |-> "Summary", field |-> "Gross Income",
       find |-> "_find_amount", patterns |-> <<
            Lit(<<"g", "r", "o", "s", "s", " ", "i", "n", "c", "o", "m", "e">>) \o AmountTail,
            Lit(<<"t", "o", "t", "a", "l", " ", "i", "n", "c", "o", "m", "e">>) \o AmountTail>>],
      [section |-> "Summary", field |-> "Taxable Income",
       find |-> "_find_amount", patterns |-> <<
            Lit(<<"t", "a", "x", "a", "b", "l", "e", " ", "i", "n", "c", "o", "m", "e">>) \o AmountTail>>],
      [section |-> "Summary", field |-> "Estimated Tax Owed",
       find |-> "_find_amount", patterns |-> <<
            Lit(<<"t", "a", "x", " ", "o", "w", "e", "d">>) \o AmountTail,
            Lit(<<"t", "o", "t", "a", "l", " ", "t", "a", "x">>) \o AmountTail>>],
      [section |-> "Summary", field |-> "Taxes Already Paid (W-2 withholding)",
       find |-> "_find_amount", patterns |-> <<
            Lit(<<"w", "i", "t", "h", "h", "o", "l", "d">>) \o AmountTail,
            Lit(<<"f", "e", "d", "e", "r", "a", "l">>) \o <<LazyDots>> \o Lit(<<"w", "i", "t", "h", "h", "e", "l", "d">>) \o AmountTail>>],
      [section |-> "Summary", field |-> "Refund / Amount Due",
       find |-> "_find_amount", patterns |-> <<
            Lit(<<"r", "e", "f", "u", "n", "d">>) \o AmountTail,
            Lit(<<"a", "m", "o", "u", "n", "t", " ", "d", "u", "e">>) \o AmountTail>>]
    >>

\* _find_value: group 1 of the first pattern that matches, stripped
RECURSIVE find_value(_, _)
find_value(text, patterns) ==
    IF patterns = <<>> THEN Str(<<>>)
    ELSE LET match == re_search(patterns[1], text)
         IN  IF match.ok THEN Str(Strip(Group1(text, match)))
             ELSE find_value(text, Tail(patterns))

\* raw of _find_amount
RawAmount(text, match) == Strip(Remove(Remove(Group1(text, match), ","), "$"))

\* _find_amount, were a ValueError to end the loop with the default
RECURSIVE find_amount_StopAtValueError(_, _)
find_amount_StopAtValueError(text, patterns) ==
    IF patterns = <<>> THEN Float(0, 0)
    ELSE LET match == re_search(patterns[1], text)
         IN  IF match.ok
             THEN IF FloatParses(RawAmount(text, match))
                  THEN float(RawAmount(text, match))
                  ELSE Float(0, 0)
             ELSE find_amount_StopAtValueError(text, Tail(patterns))

\* _find_amount: the float of the first pattern that matches and whose
\* group 1 parses; "except ValueError: pass" goes on with the next pattern
RECURSIVE find_amount(_, _)
find_amount(text, patterns) ==
    IF patterns = <<>> THEN Float(0, 0)
    ELSE LET match == re_search(patterns[1], text)
         IN  IF match.ok /\ FloatParses(RawAmount(text, match))
             THEN float(RawAmount(text, match))
             ELSE find_amount(text, Tail(patterns))

\* d[key]
GetItem(d, key) == d[CHOOSE i \in 1..Len(d) : d[i].key = key].value

\* d[key] = value: an existing key keeps its place, a new key goes last
SetItem(d, key, value) ==
    IF \E i \in 1..Len(d) : d[i].key = key
    THEN [i \in 1..Len(d) |->
            IF d[i].key = key THEN [key |-> key, value |-> value] ELSE d[i]]
    ELSE Append(d, [key |-> key, value |-> value])

\* data[section][field] = the value the rule finds in text
Assign(data, rule, text) ==
    LET value == IF rule.find = "_find_value"
                 THEN find_value(text, rule.patterns)
                 ELSE find_amount(text, rule.patterns)
    IN  SetItem(data, rule.section,
                SetItem(GetItem(data, rule.section), rule.field, value))

RECURSIVE AssignFrom(_, _, _)
AssignFrom(data, text, k) ==
    IF k > Len(FieldRules) THEN data
    ELSE AssignFrom(Assign(data, FieldRules[k], text), text, k + 1)

\* parse_pdf_into_template, were data the template itself and not a copy
parse_pdf_into_template_NoCopy(template, pdf_text) ==
    LET data == AssignFrom(template, pdf_text, 1)
    IN  [data |-> data, template |-> data]

\* parse_pdf_into_template: data is a copy of the template (a new dict per
\* section), so the assignments leave the module's TAX_TEMPLATE as it is.
\* The result is the returned data and TAX_TEMPLATE after the call.
parse_pdf_into_template(template, pdf_text) ==
    [data |-> AssignFrom(template, pdf_text, 1), template |-> template]

\* the items of all sections, in the order of the two loops of
\* convert_pdf_to_csv
RECURSIVE Items(_)
Items(data) ==
    IF data = <<>> THEN <<>>
    ELSE [i \in 1..Len(data[1].value) |->
            [section |-> data[1].key, field |-> data[1].value[i].key,
             value |-> data[1].value[i].value]] \o Items(Tail(data))

\* bool(value)
ValueTruthy(v) == IF v.t = "str" THEN v.s # <<>> ELSE v.m # 0

\* value != 0.0: a str never equals a float
NotZero(v) == v.t = "str" \/ v.m # 0

\* "if value and value != 0.0", were it "if value != 0.0"
IsFilled_NoTruthTest(v) == NotZero(v)

\* "if value and value != 0.0"
IsFilled(v) == ValueTruthy(v) /\ NotZero(v)

\* the lists filled and empty of convert_pdf_to_csv
Summarise(data) ==
    [filled |-> SelectSeq(Items(data), LAMBDA it : IsFilled(it.value)),
     empty |-> SelectSeq(Items(data), LAMBDA it : ~IsFilled(it.value))]

(***************************************************************************)
(* The texts extract_text_from_pdf hands to the extraction.                *)
(***************************************************************************)
\* no pattern matches
TextPlain == <<"h", "e", "l", "l", "o">>
\* an amount with a thousands separator and a filing status
TextScenario == <<"W", "a", "g", "e", "s", ":", " ", "$", "5", "5", ",", "0", "0", "0", ".", "0", "0", ",", " ", "F", "i", "l", "i", "n", "g", " ", "S", "t", "a", "t", "u", "s", ":", " ", "S", "i", "n", "g", "l", "e">>
\* the first pattern of W-2 Wages matches and captures a comma; the second
\* captures 5
TextLaterRule == <<"w", "a", "g", "e", "s", " ", ",", " ", "w", "2", " ", "5">>
\* the only pattern of W-2 Wages that matches captures a comma; a later field
\* has an amount
TextNoParse == <<"w", "a", "g", "e", "s", " ", ",", " ", "r", "e", "f", "u", "n", "d", " ", "7">>
\* both patterns of W-2 Wages match and parse
TextFirstWins == <<"w", "a", "g", "e", "s", " ", "3", " ", "w", "2", " ", "5">>
\* a string field
TextSsn == <<"s", "s", "n", " ", "1", "2", "3", "4">>
\* a pattern matches and the amount is the default
TextZero == <<"s", "a", "l", "t", " ", "0">>
\* a pattern of Full Name matches and captures a blank
TextBlankName == <<"n", "a", "m", "e", ":", " ", "\n">>
\* two lines, two string fields
TextTwoLines == <<"N", "a", "m", "e", ":", " ", "A", "n", "n", " ", "L", "e", "e", "\n", "T", "a", "x", " ", "Y", "e", "a", "r", " ", "2", "0", "2", "3">>
\* only the second pattern of W-2 Wages matches
TextSecondRule == <<"W", "-", "2", " ", "1", ",", "2", "5", "0", ".", "5", "0", " ", "r", "e", "f", "u", "n", "d", " ", "7">>
\* a string field and an amount
TextItemized == <<"I", "t", "e", "m", "i", "z", "e", "d", " ", "d", "e", "d", "u", "c", "t", "i", "o", "n", ",", " ", "m", "e", "d", "i", "c", "a", "l", " ", "$", "3", "0", "0">>
\* nothing but whitespace
TextBlank == <<" ", "\n">>

Texts ==
    {TextPlain, TextScenario, TextLaterRule, TextNoParse,
     TextFirstWins, TextSsn, TextZero, TextBlankName,
     TextTwoLines, TextSecondRule, TextItemized, TextBlank}

(***************************************************************************)
(* State.                                                                  *)
(***************************************************************************)
VARIABLES
    pc,           \* where main.run is: "start", "input", a graph node, "finish",
                  \* "exited", "crashed"; "store" in the session-store specification
    runs,         \* processes started so far
    turns,        \* graph invocations started so far
    thread_id,    \* run's thread_id
    used_ids,     \* the identifiers uuid4 has handed out
    sessions,     \* table sessions
    conversions,  \* table conversions
    now,          \* the clock
    pdf_path,     \* run's pdf_path
    state,        \* the AgentState of the invocation
    trace,        \* the graph nodes entered in this invocation, in order
    out_files,    \* the CSV files in output/
    raised,       \* the exception that ended the process ("" for none)
    response,     \* what the classification call answered in this invocation
    wrote,        \* template_to_csv wrote a file during this invocation
    cap_fault,    \* a capability call raised during this invocation
    written,      \* invocations in which template_to_csv wrote a file
    said,         \* per session, messages exchanged so far (users' and agent's)
    calls,        \* the upsert_session calls of the session-store specification
    template,     \* the module's dict TAX_TEMPLATE
    pdf_text,     \* convert_pdf_to_csv's pdf_text
    data,         \* convert_pdf_to_csv's data
    summary,      \* convert_pdf_to_csv's lists filled and empty
    convert_error,\* what the last convert_pdf_to_csv call raised ("" for nothing)
    extracted,    \* the texts parsed so far, in order, each with the data returned
    extracts      \* convert_pdf_to_csv calls of the extraction specification

\* the state of the loop and of the tables
loop_vars == <<pc, runs, turns, thread_id, used_ids, sessions, conversions, now,
               pdf_path, state, trace, out_files, raised, response, wrote,
               cap_fault, written, said, calls>>

\* the state of the extraction
extract_vars == <<template, pdf_text, data, summary, convert_error, extracted,
                  extracts>>

vars == <<loop_vars, extract_vars>>

ThreadIds == 1..MaxRuns

NoState == [messages |-> <<>>, next_action |-> None, pdf_path |-> None, csv_path |-> None]

Init ==
    /\ pc = "start"
    /\ runs = 1
    /\ turns = 0
    /\ thread_id = 0
    /\ used_ids = {}
    /\ sessions = {}
    /\ conversions = <<>>
    /\ now = 0
    /\ pdf_path = None
    /\ state = NoState
    /\ trace = <<>>
    /\ out_files = {}
    /\ raised = ""
    /\ response = None
    /\ wrote = FALSE
    /\ cap_fault = FALSE
    /\ written = 0
    /\ said = [i \in ThreadIds |-> 0]
    /\ calls = <<>>
    /\ template = TAX_TEMPLATE
    /\ pdf_text = None
    /\ data = <<>>
    /\ summary = [filled |-> <<>>, empty |-> <<>>]
    /\ convert_error = ""
    /\ extracted = <<>>
    /\ extracts = 0

(***************************************************************************)
(* agent/graph.py and agent/nodes.py: the graph and its nodes.             *)
(*                                                                         *)
(* build_graph takes no checkpointer and ends in graph.compile(): the      *)
(* compiled graph keeps nothing between two invocations, so an invocation  *)
(* starts from exactly the state the caller passes in.                     *)
(***************************************************************************)
\* Python truthiness of a str | None
Truthy(x) == x # None /\ x # <<>>

\* merge a node's returned update into the state: messages go through the
\* add_messages reducer (appended), every other key is overwritten
ApplyUpdate(st, upd) ==
    [k \in DOMAIN st |->
        IF k \notin DOMAIN upd THEN st[k]
        ELSE IF k = "messages" THEN st[k] \o upd[k]
        ELSE upd[k]]

\* ClassifiedAs without .lower()
ClassifiedAs_NoLower(content) ==
    IF Strip(content) \in Labels THEN Strip(content) ELSE ChatLabel

\* router_node: action = response.content.strip().lower(), chat when unexpected
ClassifiedAs(content) ==
    IF Lower(Strip(content)) \in Labels THEN Lower(Strip(content)) ELSE ChatLabel

\* the update router_node returns when the classifier's response.content is content
router_node(st, content) ==
    [next_action |-> ClassifiedAs(content),
     pdf_path    |-> st.pdf_path,
     csv_path    |-> st.csv_path]

\* route_decision that answers with its default whatever the router set
route_decision_AlwaysDefault(st) == ChatLabel

\* route_decision: state.get("next_action", "chat")
route_decision(st) ==
    IF "next_action" \in DOMAIN st THEN st.next_action ELSE ChatLabel

\* the node the conditional edge out of router leads to
EdgeTarget(label) ==
    CASE label = ChatLabel   -> "chat"
      [] label = SearchLabel -> "search"
      [] label = PdfLabel    -> "pdf"
      [] OTHER               -> "crashed"

\* pdf_node: what it returns or raises, given whether the relay call to the
\* model succeeds.  escaped is the exception that leaves the node ("" for none),
\* wrote says whether template_to_csv wrote the CSV file, cap whether the
\* relay call raised.
pdf_node(st, llm_ok) ==
    IF st.pdf_path = None
    THEN \* None has no strip(): AttributeError, outside the try block
         [escaped |-> "AttributeError", update |-> << >>, wrote |-> FALSE,
          file |-> None, cap |-> FALSE]
    ELSE LET p == Strip(st.pdf_path) IN
         IF p = <<>>
         THEN [escaped |-> "", update |-> [messages |-> <<AIMessage(ClarifyReply)>>],
               wrote |-> FALSE, file |-> None, cap |-> FALSE]
         ELSE IF ~IsFile(p)
         THEN [escaped |-> "", update |-> [messages |-> <<AIMessage(NotFoundReply(p))>>],
               wrote |-> FALSE, file |-> None, cap |-> FALSE]
         ELSE LET conv == convert_pdf_to_csv(p) IN
              IF conv.raised # ""
              THEN [escaped |-> "",
                    update |-> [messages |-> <<AIMessage(ErrorReply(conv.raised))>>],
                    wrote |-> FALSE, file |-> None, cap |-> FALSE]
              ELSE IF llm_ok
              THEN [escaped |-> "",
                    update |-> [messages |-> <<AIMessage(LlmReply)>>,
                                csv_path |-> conv.csv_path],
                    wrote |-> TRUE, file |-> conv.csv_path, cap |-> FALSE]
              ELSE \* the relay call raises inside the try block
                   [escaped |-> "",
                    update |-> [messages |-> <<AIMessage(ErrorReply(CapabilityError))>>],
                    wrote |-> TRUE, file |-> conv.csv_path, cap |-> TRUE]

(***************************************************************************)
(* main.run                                                                *)
(***************************************************************************)
\* an exception leaves agent.invoke: run has no handler for it
Crash(e) ==
    /\ pc' = "crashed"
    /\ raised' = e

\* init_db, pick_session, get_checkpointer, build_graph.  init_db creates the
\* tables only when they are missing, so the rows of earlier processes stay.
\* pick_session draws a new uuid4 when the user answers N, nothing or something
\* invalid, or when no session is listed, and otherwise takes a listed session.
\* The graph the loop drives is the one graph.py compiles: build_graph has no
\* parameter for the checkpointer that run hands it.
StartRun ==
    /\ pc = "start"
    /\ \E new \in BOOLEAN :
          IF new \/ list_sessions(sessions) = {}
          THEN /\ thread_id' = Cardinality(used_ids) + 1
               /\ used_ids' = used_ids \cup {Cardinality(used_ids) + 1}
          ELSE /\ \E r \in list_sessions(sessions) : thread_id' = r.thread_id
               /\ used_ids' = used_ids
    /\ pc' = "input"
    /\ UNCHANGED extract_vars
    /\ UNCHANGED <<runs, turns, sessions, conversions, now, pdf_path, state,
                   trace, out_files, raised, response, wrote, cap_fault,
                   written, said, calls>>

\* input() raises EOFError or KeyboardInterrupt: break
InputEOF ==
    /\ pc = "input"
    /\ pc' = "exited"
    /\ UNCHANGED extract_vars
    /\ UNCHANGED <<runs, turns, thread_id, used_ids, sessions, conversions,
                   now, pdf_path, state, trace, out_files, raised, response,
                   wrote, cap_fault, written, said, calls>>

\* an empty line: continue
InputEmpty ==
    /\ pc = "input"
    /\ \E line \in Lines : Strip(line) = <<>>
    /\ UNCHANGED vars

\* exit / quit: break
InputExit ==
    /\ pc = "input"
    /\ \E line \in Lines : Lower(Strip(line)) \in {ExitWord, QuitWord}
    /\ pc' = "exited"
    /\ UNCHANGED extract_vars
    /\ UNCHANGED <<runs, turns, thread_id, used_ids, sessions, conversions,
                   now, pdf_path, state, trace, out_files, raised, response,
                   wrote, cap_fault, written, said, calls>>

\* history: print list_conversions(thread_id), continue
InputHistory ==
    /\ pc = "input"
    /\ \E line \in Lines : Lower(Strip(line)) = HistoryWord
    /\ UNCHANGED vars

\* any other line: parse_pdf_path, build the state, agent.invoke
InputMessage ==
    /\ pc = "input"
    /\ turns < MaxTurns
    /\ \E line \in Lines :
          LET u == Strip(line)
              parsed == parse_pdf_path(u)
          IN  /\ u # <<>>
              /\ Lower(u) \notin {ExitWord, QuitWord, HistoryWord}
              /\ pdf_path' = parsed.path
              /\ state' = [messages    |-> <<HumanMessage(parsed.cleaned)>>,
                           next_action |-> None,
                           pdf_path    |-> parsed.path,
                           csv_path    |-> None]
    /\ pc' = "router"
    /\ turns' = turns + 1
    /\ trace' = <<>>
    /\ response' = None
    /\ wrote' = FALSE
    /\ cap_fault' = FALSE
    /\ said' = [said EXCEPT ![thread_id] = @ + 1]
    /\ UNCHANGED extract_vars
    /\ UNCHANGED <<runs, thread_id, used_ids, sessions, conversions, now,
                   out_files, raised, written, calls>>

\* node router: the classification call answers or raises
RouterNode ==
    /\ pc = "router"
    /\ trace' = Append(trace, "router")
    /\ \/ \E r \in Responses :
             /\ response' = r
             /\ state' = ApplyUpdate(state, router_node(state, r))
             /\ pc' = EdgeTarget(route_decision(state'))
             /\ UNCHANGED <<raised, cap_fault>>
       \/ /\ Crash(CapabilityError)
          /\ cap_fault' = TRUE
          /\ UNCHANGED <<state, response>>
    /\ UNCHANGED extract_vars
    /\ UNCHANGED <<runs, turns, thread_id, used_ids, sessions, conversions,
                   now, pdf_path, out_files, wrote, written, said, calls>>

\* node chat: the generation call answers or raises
ChatNode ==
    /\ pc = "chat"
    /\ trace' = Append(trace, "chat")
    /\ \/ /\ state' = ApplyUpdate(state, [messages |-> <<AIMessage(LlmReply)>>])
          /\ said' = [said EXCEPT ![thread_id] = @ + 1]
          /\ pc' = "finish"
          /\ UNCHANGED <<raised, cap_fault>>
       \/ /\ Crash(CapabilityError)
          /\ cap_fault' = TRUE
          /\ UNCHANGED <<state, said>>
    /\ UNCHANGED extract_vars
    /\ UNCHANGED <<runs, turns, thread_id, used_ids, sessions, conversions,
                   now, pdf_path, out_files, response, wrote, written, calls>>

\* node search: search_web and the summarising call answer, or one of them raises
SearchNode ==
    /\ pc = "search"
    /\ trace' = Append(trace, "search")
    /\ \/ /\ state' = ApplyUpdate(state, [messages |-> <<AIMessage(LlmReply)>>])
          /\ said' = [said EXCEPT ![thread_id] = @ + 1]
          /\ pc' = "finish"
          /\ UNCHANGED <<raised, cap_fault>>
       \/ /\ Crash(CapabilityError)
          /\ cap_fault' = TRUE
          /\ UNCHANGED <<state, said>>
    /\ UNCHANGED extract_vars
    /\ UNCHANGED <<runs, turns, thread_id, used_ids, sessions, conversions,
                   now, pdf_path, out_files, response, wrote, written, calls>>

\* node pdf: the relay call answers or raises
PdfNode ==
    /\ pc = "pdf"
    /\ trace' = Append(trace, "pdf")
    /\ \E llm_ok \in BOOLEAN :
          LET res == pdf_node(state, llm_ok) IN
          /\ out_files' = IF res.wrote THEN out_files \cup {res.file} ELSE out_files
          /\ written' = IF res.wrote THEN written + 1 ELSE written
          /\ wrote' = res.wrote
          /\ cap_fault' = res.cap
          /\ IF res.escaped # ""
             THEN /\ Crash(res.escaped)
                  /\ UNCHANGED <<state, said>>
             ELSE /\ state' = ApplyUpdate(state, res.update)
                  /\ said' = [said EXCEPT ![thread_id] = @ + 1]
                  /\ pc' = "finish"
                  /\ UNCHANGED raised
    /\ UNCHANGED extract_vars
    /\ UNCHANGED <<runs, turns, thread_id, used_ids, sessions, conversions,
                   now, pdf_path, response, calls>>

\* FinishTurn with upsert_session moved under "if result.get('csv_path')"
FinishTurn_TouchOnlyWhenLogged ==
    /\ pc = "finish"
    /\ LET logs == Truthy(state.csv_path)
           tUp  == IF logs THEN now + 2 ELSE now + 1
       IN  /\ conversions' =
                 IF logs
                 THEN log_conversion(conversions, thread_id,
                                     IF Truthy(pdf_path) THEN pdf_path ELSE <<>>,
                                     state.csv_path, now + 1)
                 ELSE conversions
           /\ sessions' = IF logs THEN upsert_session(sessions, thread_id, 2, tUp)
                          ELSE sessions
           /\ now' = tUp
    /\ pc' = "input"
    /\ pdf_path' = None
    /\ state' = NoState
    /\ trace' = <<>>
    /\ response' = None
    /\ wrote' = FALSE
    /\ cap_fault' = FALSE
    /\ UNCHANGED extract_vars
    /\ UNCHANGED <<runs, turns, thread_id, used_ids, out_files, raised,
                   written, said, calls>>

\* after agent.invoke returns: log_conversion(thread_id, pdf_path or "",
\* result["csv_path"]) when result has a csv_path, then
\* upsert_session(thread_id, delta_messages=2).  Each call reads the clock.
FinishTurn ==
    /\ pc = "finish"
    /\ LET logs == Truthy(state.csv_path)
           tUp  == IF logs THEN now + 2 ELSE now + 1
       IN  /\ conversions' =
                 IF logs
                 THEN log_conversion(conversions, thread_id,
                                     IF Truthy(pdf_path) THEN pdf_path ELSE <<>>,
                                     state.csv_path, now + 1)
                 ELSE conversions
           /\ sessions' = upsert_session(sessions, thread_id, 2, tUp)
           /\ now' = tUp
    /\ pc' = "input"
    \* the iteration ends: its locals are dead, the next one overwrites them
    /\ pdf_path' = None
    /\ state' = NoState
    /\ trace' = <<>>
    /\ response' = None
    /\ wrote' = FALSE
    /\ cap_fault' = FALSE
    /\ UNCHANGED extract_vars
    /\ UNCHANGED <<runs, turns, thread_id, used_ids, out_files, raised,
                   written, said, calls>>

\* the user starts the program again after it exited or died
Restart ==
    /\ pc \in {"exited", "crashed"}
    /\ runs < MaxRuns
    /\ pc' = "start"
    /\ runs' = runs + 1
    /\ raised' = ""
    /\ pdf_path' = None
    /\ state' = NoState
    /\ trace' = <<>>
    /\ response' = None
    /\ wrote' = FALSE
    /\ cap_fault' = FALSE
    /\ UNCHANGED extract_vars
    /\ UNCHANGED <<turns, thread_id, used_ids, sessions, conversions, now,
                   out_files, written, said, calls>>

Next ==
    \/ StartRun
    \/ InputEOF
    \/ InputEmpty
    \/ InputExit
    \/ InputHistory
    \/ InputMessage
    \/ RouterNode
    \/ ChatNode
    \/ SearchNode
    \/ PdfNode
    \/ FinishTurn
    \/ Restart

Spec == Init /\ [][Next]_vars

(***************************************************************************)
(* The session store on its own: upsert_session called with any            *)
(* identifier, any non-negative delta_messages and any reading of the wall *)
(* clock (which need not advance between two calls).                       *)
(***************************************************************************)
StoreIds == {1, 2}
Deltas == {0, 1, 2}
Times == 0..MaxTime

InitStore ==
    /\ pc = "store"
    /\ runs = 1
    /\ turns = 0
    /\ thread_id = 0
    /\ used_ids = {}
    /\ sessions = {}
    /\ conversions = <<>>
    /\ now = 0
    /\ pdf_path = None
    /\ state = NoState
    /\ trace = <<>>
    /\ out_files = {}
    /\ raised = ""
    /\ response = None
    /\ wrote = FALSE
    /\ cap_fault = FALSE
    /\ written = 0
    /\ said = [i \in ThreadIds |-> 0]
    /\ calls = <<>>
    /\ template = TAX_TEMPLATE
    /\ pdf_text = None
    /\ data = <<>>
    /\ summary = [filled |-> <<>>, empty |-> <<>>]
    /\ convert_error = ""
    /\ extracted = <<>>
    /\ extracts = 0

\* one call upsert_session(id, delta); calls records it with the count the
\* table holds for id afterwards
UpsertCall ==
    /\ pc = "store"
    /\ Len(calls) < MaxCalls
    /\ \E id \in StoreIds, delta \in Deltas, t \in Times :
          /\ sessions' = upsert_session(sessions, id, delta, t)
          /\ now' = t
          /\ calls' = Append(calls,
                [id |-> id, delta |-> delta, at |-> t,
                 count |-> (CHOOSE r \in sessions' : r.thread_id = id).message_count])
    /\ UNCHANGED extract_vars
    /\ UNCHANGED <<pc, runs, turns, thread_id, used_ids, conversions, pdf_path,
                   state, trace, out_files, raised, response, wrote, cap_fault,
                   written, said>>

NextStore == UpsertCall

SpecStore == InitStore /\ [][NextStore]_vars

(***************************************************************************)
(* Properties                                                              *)
(***************************************************************************)
\* the router has answered in the invocation under way
Routed == response # None

\* the handler the invocation entered, "" before it entered one
Handler == IF Len(trace) >= 2 THEN trace[2] ELSE ""

\* C1: whatever text the classifier returns, the label router_node records is
\* one of chat, search, pdf: the trimmed, lowercased response when that is one
\* of the three, and chat for every other response.
C1_RouterLabel ==
    Routed =>
        /\ state.next_action \in {ChatLabel, SearchLabel, PdfLabel}
        /\ Lower(Strip(response)) \in {ChatLabel, SearchLabel, PdfLabel}
              => state.next_action = Lower(Strip(response))
        /\ Lower(Strip(response)) \notin {ChatLabel, SearchLabel, PdfLabel}
              => state.next_action = ChatLabel

\* C1 witness: the classifier answered " PDF\n" and the router recorded pdf.
C1_Witness ==
    /\ response = <<" ", "P", "D", "F", "\n">>
    /\ state.next_action = PdfLabel
    /\ pc = "pdf"

\* C2: in every invocation the router is entered first and once, then exactly
\* the handler the routing label names, and then the invocation ends: the nodes
\* entered are router followed by at most one handler, a handler is only
\* entered after the router set its label, and an invocation that returns has
\* entered exactly router and that handler.
C2_OneHandlerPerTurn ==
    /\ Len(trace) <= 2
    /\ Len(trace) >= 1 => trace[1] = "router"
    /\ pc \in {"chat", "search", "pdf"} => trace = <<"router">> /\ Routed
    /\ pc = "finish" => Len(trace) = 2
    /\ pc = "router" => trace = <<>>
    /\ (Len(trace) = 2 \/ pc \in {"chat", "search", "pdf"}) =>
          LET h == IF Len(trace) = 2 THEN trace[2] ELSE pc IN
          \/ h = "chat" /\ state.next_action = ChatLabel
          \/ h = "search" /\ state.next_action = SearchLabel
          \/ h = "pdf" /\ state.next_action = PdfLabel

\* C2 witness: an invocation that returned after router and the search handler.
C2_Witness ==
    /\ pc = "finish"
    /\ trace = <<"router", "search">>
    /\ state.next_action = SearchLabel

\* C3: an input of the form "convert <path>" is handled by the document
\* handler whatever the classifier answers.
C3_ConvertRoutesToPdf ==
    (pdf_path # None /\ Handler # "") => Handler = "pdf"

\* the path the document handler was given names no existing file or is missing
NoSourceFile(p) ==
    \/ p = None
    \/ Strip(p) = <<>>
    \/ ~IsFile(Strip(p))

\* C4: when the document handler has run on a missing path (None, empty or
\* blank) or on a path that names no file, it has appended exactly one agent
\* reply, written no artifact, set no artifact path, and no exception left it.
C4_MissingSourceReply ==
    (Handler = "pdf" /\ NoSourceFile(state.pdf_path)) =>
        /\ pc = "finish"
        /\ raised = ""
        /\ Len(state.messages) >= 2
        /\ state.messages[Len(state.messages)].type = "ai"
        /\ state.messages[Len(state.messages) - 1].type = "human"
        /\ ~wrote
        /\ state.csv_path = None

\* C5: a capability call that raises is never caught: the exception leaves
\* the invocation and no reply stands in for it.
C5_FaultsPropagate ==
    cap_fault => pc = "crashed" /\ raised = CapabilityError

\* C6: between turns the conversions table holds as many rows as there were
\* invocations in which the document handler wrote an output artifact.
C6_RecordPerArtifact ==
    pc \in {"input", "exited", "start"} => Len(conversions) = written

\* the positions in calls of the calls on id, and the sum of their deltas
CallsOn(id) == {i \in 1..Len(calls) : calls[i].id = id}

RECURSIVE SumDeltas(_)
SumDeltas(is) ==
    IF is = {} THEN 0
    ELSE LET i == CHOOSE j \in is : TRUE
         IN  calls[i].delta + SumDeltas(is \ {i})

\* C7: after any sequence of upsert_session calls an identifier has at most
\* one row, and none before its first call; the row of a touched identifier
\* counts the sum of the deltas of the calls on it, was created at the time of
\* the first of them and was last active at the time of the latest; and from
\* one call on an identifier to the next its count never decreases.
C7_OneRowPerSession ==
    /\ \A r, q \in sessions : r.thread_id = q.thread_id => r = q
    /\ \A id \in StoreIds :
          IF CallsOn(id) = {}
          THEN \A r \in sessions : r.thread_id # id
          ELSE LET first == CHOOSE i \in CallsOn(id) : \A j \in CallsOn(id) : i <= j
                   last  == CHOOSE i \in CallsOn(id) : \A j \in CallsOn(id) : j <= i
               IN  \E r \in sessions :
                      /\ r.thread_id = id
                      /\ r.message_count = SumDeltas(CallsOn(id))
                      /\ r.created_at = calls[first].at
                      /\ r.last_active = calls[last].at
    /\ \A i, j \in 1..Len(calls) :
          (i < j /\ calls[i].id = calls[j].id) => calls[i].count <= calls[j].count

\* C7 witness: upsert_session(1, 2) twice, at different times, on an absent
\* identifier: one row, count 4, created at the first call's time and last
\* active at the second's.
C7_Witness ==
    /\ Len(calls) = 2
    /\ calls[1] = [id |-> 1, delta |-> 2, at |-> 0, count |-> 2]
    /\ calls[2].id = 1 /\ calls[2].delta = 2 /\ calls[2].at = 1
    /\ sessions = {[thread_id |-> 1, created_at |-> 0, last_active |-> 1,
                    message_count |-> 4]}

\* the count of a session, 0 when it has no row
CountOf(rows, id) ==
    IF \E r \in rows : r.thread_id = id
    THEN (CHOOSE r \in rows : r.thread_id = id).message_count
    ELSE 0

\* C8: the step that follows a returned invocation, whichever handler ran,
\* updates the session once: its row afterwards counts 2 more, is last active
\* at the time of the update, and every other row is as before; no other step
\* of the loop (history, an empty line, exit, quit, the nodes) changes the
\* table, and no step removes a row.
C8_TouchAfterEveryTurn ==
    [][ /\ pc = "finish" =>
              /\ pc' = "input"
              /\ \E r \in sessions' :
                    /\ r.thread_id = thread_id
                    /\ r.message_count = CountOf(sessions, thread_id) + 2
                    /\ r.last_active = now'
                    /\ now' > now
                    /\ sessions' \ {r} = {q \in sessions : q.thread_id # thread_id}
        /\ pc # "finish" => sessions' = sessions
        /\ \A q \in sessions : \E r \in sessions' : r.thread_id = q.thread_id
      ]_vars

\* C8 witness: a document turn that ended in an error reply is about to be
\* counted, in a session an earlier turn was counted in.
C8_Witness ==
    /\ pc = "finish"
    /\ Handler = "pdf"
    /\ state.csv_path = None
    /\ state.messages[2].content = NotFoundReply(MissingPdf)
    /\ CountOf(sessions, thread_id) = 2

\* C9: the handler sees every message of the session so far: the earlier
\* user and agent messages and then the new user message.
C9_HistoryAccumulates ==
    pc \in {"chat", "search", "pdf"} => Len(state.messages) = said[thread_id]

\* every page of the file is without text or holds whitespace only
BlankDocument(p) ==
    /\ IsFile(p)
    /\ \A i \in 1..Len(Disk[p]) :
          \/ Disk[p][i] = None
          \/ \A k \in 1..Len(Disk[p][i]) : Disk[p][i][k] \in Whitespace

\* C10: a document handler that ran on a file without extractable text wrote
\* no artifact, caught the failure, appended one agent reply (the no-text
\* error) after the user's message, set no artifact path and returned
\* normally; and the step after it records no conversion.
C10_NoTextNoArtifact ==
    /\ [](  (Handler = "pdf" /\ state.pdf_path # None
               /\ BlankDocument(Strip(state.pdf_path)))
            => /\ pc = "finish"
               /\ raised = ""
               /\ ~wrote
               /\ CsvPathOf(Strip(state.pdf_path)) \notin out_files
               /\ Len(state.messages) >= 2
               /\ state.messages[Len(state.messages)] = AIMessage(ErrorReply(NoTextError))
               /\ state.messages[Len(state.messages) - 1].type = "human"
               /\ state.csv_path = None )
    /\ [][ (Handler = "pdf" /\ state.pdf_path # None
               /\ BlankDocument(Strip(state.pdf_path)))
            => conversions' = conversions /\ pc' = "input" ]_vars

\* C10 witness: the document handler has run on the scanned PDF, whose text
\* is one blank, and replied with the no-text error.
C10_Witness ==
    /\ pc = "finish"
    /\ Handler = "pdf"
    /\ Strip(state.pdf_path) = ScannedPdf
    /\ state.messages[2] = AIMessage(ErrorReply(NoTextError))

(***************************************************************************)
(* The extraction specification: one Python process calls                  *)
(* convert_pdf_to_csv on one document after the other; what it does from   *)
(* the text extract_text_from_pdf returned on is modelled here.            *)
(***************************************************************************)
NoSummary == [filled |-> <<>>, empty |-> <<>>]

InitExtract ==
    /\ pc = "extract"
    /\ runs = 1
    /\ turns = 0
    /\ thread_id = 0
    /\ used_ids = {}
    /\ sessions = {}
    /\ conversions = <<>>
    /\ now = 0
    /\ pdf_path = None
    /\ state = NoState
    /\ trace = <<>>
    /\ out_files = {}
    /\ raised = ""
    /\ response = None
    /\ wrote = FALSE
    /\ cap_fault = FALSE
    /\ written = 0
    /\ said = [i \in ThreadIds |-> 0]
    /\ calls = <<>>
    /\ template = TAX_TEMPLATE
    /\ pdf_text = None
    /\ data = <<>>
    /\ summary = NoSummary
    /\ convert_error = ""
    /\ extracted = <<>>
    /\ extracts = 0

\* convert_pdf_to_csv from its blank check on: a text of nothing but
\* whitespace raises ValueError before the template is touched; any other
\* text is parsed into a copy of the template and summarised.  extracted
\* records, call after call, the text with the data returned for it.
ExtractText ==
    /\ pc = "extract"
    /\ extracts < MaxExtracts
    /\ extracts' = extracts + 1
    /\ \E text \in Texts :
          /\ pdf_text' = text
          /\ IF Strip(text) = <<>>
             THEN /\ convert_error' = NoTextError
                  /\ UNCHANGED <<template, data, summary, extracted>>
             ELSE \E result \in {parse_pdf_into_template(template, text)} :
                      /\ convert_error' = ""
                      /\ data' = result.data
                      /\ template' = result.template
                      /\ summary' = Summarise(data')
                      /\ extracted' = Append(extracted,
                             [text |-> text, data |-> data'])
    /\ UNCHANGED loop_vars

NextExtract == ExtractText

SpecExtract == InitExtract /\ [][NextExtract]_vars

(***************************************************************************)
(* The extraction: what a call that returned left behind.                  *)
(***************************************************************************)
\* the last convert_pdf_to_csv call parsed pdf_text and built its summary
Parsed == pc = "extract" /\ extracts > 0 /\ convert_error = ""

\* the fields of the schema, in order
SchemaItems == Items(TAX_TEMPLATE)

\* data[section][field]
ValueOf(d, section, field) == GetItem(GetItem(d, section), field)

\* how often a field is listed in one of the summary's lists
Listed(list, it) ==
    Cardinality({i \in 1..Len(list) :
                    list[i].section = it.section /\ list[i].field = it.field})

\* no pattern of any field matches text
NoRuleMatches(text) ==
    \A k \in 1..Len(FieldRules) : \A j \in 1..Len(FieldRules[k].patterns) :
        ~re_search(FieldRules[k].patterns[j], text).ok

\* C11: when no pattern of any field matches the text, the data returned is
\* the schema with every field at its default, the summary counts no filled
\* field and lists every schema field as blank; for every text, each schema
\* field is in exactly one of the lists filled and empty, in filled exactly
\* when its value differs from the schema default, and the two lists together
\* are as long as the schema.
C11_DefaultsAndSummary ==
    Parsed =>
        /\ NoRuleMatches(pdf_text) =>
              /\ data = TAX_TEMPLATE
              /\ Len(summary.filled) = 0
              /\ [i \in 1..Len(summary.empty) |->
                    <<summary.empty[i].section, summary.empty[i].field>>]
                 = [i \in 1..Len(SchemaItems) |->
                    <<SchemaItems[i].section, SchemaItems[i].field>>]
        /\ \A i \in 1..Len(SchemaItems) :
              LET it == SchemaItems[i]
              IN  /\ Listed(summary.filled, it) + Listed(summary.empty, it) = 1
                  /\ Listed(summary.filled, it) = 1
                        <=> ValueOf(data, it.section, it.field) # it.value
        /\ Len(summary.filled) + Len(summary.empty) = Len(SchemaItems)

\* a text without any match has been summarised after a text with matches
C11_Witness ==
    /\ Parsed
    /\ pdf_text = TextPlain
    /\ NoRuleMatches(TextPlain)
    /\ Len(summary.filled) = 0
    /\ Len(summary.empty) = Len(SchemaItems)
    /\ Len(extracted) > 1
    /\ extracted[1].text = TextScenario
    /\ extracted[1].data # TAX_TEMPLATE

\* the sections, the field names and the value types of a dict, in order
Shape(d) ==
    [i \in 1..Len(d) |->
        [section |-> d[i].key,
         fields |-> [j \in 1..Len(d[i].value) |->
                        [field |-> d[i].value[j].key,
                         type |-> d[i].value[j].value.t]]]]

\* C12: over any sequence of extractions in one process, the module's
\* TAX_TEMPLATE stays what its literal says; a text has one result however
\* often and after whatever other texts it is extracted; the result is the
\* one the first call of a new process returns for the text, so it holds
\* nothing of an earlier document; and every result has the template's
\* sections, field names and value types.
C12_PureExtraction ==
    pc = "extract" =>
        /\ template = TAX_TEMPLATE
        /\ \A i, j \in 1..Len(extracted) :
              extracted[i].text = extracted[j].text
                 => extracted[i].data = extracted[j].data
        /\ Parsed =>
              /\ extracted[Len(extracted)] = [text |-> pdf_text, data |-> data]
              /\ data = parse_pdf_into_template(TAX_TEMPLATE, pdf_text).data
        /\ \A i \in 1..Len(extracted) :
              Shape(extracted[i].data) = Shape(TAX_TEMPLATE)

\* a text has been extracted twice, and its results hold values
C12_Witness ==
    /\ Parsed
    /\ Len(extracted) > 1
    /\ extracted[Len(extracted)].text = TextScenario
    /\ extracted[Len(extracted) - 1].text = TextScenario
    /\ data # TAX_TEMPLATE

\* what re.search returns for each pattern of a rule
Searches(rule, text) ==
    [j \in 1..Len(rule.patterns) |-> re_search(rule.patterns[j], text)]

\* the patterns that match, given the searches ms
Matching(ms) == {j \in 1..Len(ms) : ms[j].ok}

\* the patterns that match and whose group 1 parses as a float
Parsing(text, ms) ==
    {j \in Matching(ms) : FloatParses(RawAmount(text, ms[j]))}

First(S) == CHOOSE j \in S : \A l \in S : j <= l

\* the field's value in the schema
Default(rule) == ValueOf(TAX_TEMPLATE, rule.section, rule.field)

\* the value of a string field: group 1 of the first pattern that matches,
\* stripped, and the default when none matches
StringDecided(text, ms, v, default) ==
    IF Matching(ms) = {} THEN v = default
    ELSE v = Str(Strip(Group1(text, ms[First(Matching(ms))])))

====
